---- MODULE Spec2Model ----
(***************************************************************************)
(* Model of the course-advisory chatbot core,                              *)
(* src/logics/customer_query_handler.py: the module globals, the two       *)
(* loaders run at import, and process_user_message split at its external   *)
(* calls (embedding, nearest-neighbour search, page fetch, completion).    *)
(*                                                                         *)
(* Text is modelled at the level of tokens: a query is a sequence of       *)
(* blank-separated tokens, a title is a string whose tokens TitleTokens    *)
(* gives.  Python None is the value None, a key missing from a dict is     *)
(* the value Absent, the empty string is "".                               *)
(***************************************************************************)
EXTENDS Integers, Sequences, FiniteSets, TLC

None == "None"
Absent == "Absent"

\* -------------------------------------------------------------------------
\* Bounds of the model
\* -------------------------------------------------------------------------

\* number of completed turns (query + reply appended) explored
MaxTurns == 3

\* -------------------------------------------------------------------------
\* Program constants
\* -------------------------------------------------------------------------

MAX_HISTORY_LENGTH == 5

\* k of faiss_index.search(query_embedding_np, k)
K == 5

\* courses_to_display[:3] and list(retrieved_course_names)[:3]
DisplayCap == 3

\* -------------------------------------------------------------------------
\* Tokens
\* -------------------------------------------------------------------------

\* str.lower() / re.IGNORECASE on the tokens that are not already lower case
Lower(t) ==
    CASE t = "Diploma" -> "diploma"
      [] t = "Certificate" -> "certificate"
      [] t = "Construction" -> "construction"
      [] t = "Facility" -> "facility"
      [] t = "Lean" -> "lean"
      [] t = "BIM" -> "bim"
      [] t = "SDCM" -> "sdcm"
      [] t = "(SDCM)" -> "(sdcm)"
      [] t = "BCA123" -> "bca123"
      [] t = "BCA456" -> "bca456"
      [] t = "Fee" -> "fee"
      [] t = "(AB)" -> "(ab)"
      [] OTHER -> t

LowerSeq(s) == [i \in 1..Len(s) |-> Lower(s[i])]

\* the maximal runs of word characters ([A-Za-z0-9_]) of a token, lower-cased;
\* "?" has none, "(SDCM)" has the run "sdcm"
WordRuns(t) ==
    CASE t = "?" -> {}
      [] Lower(t) = "(sdcm)" -> {"sdcm"}
      [] Lower(t) = "(ab)" -> {"ab"}
      [] OTHER -> {Lower(t)}

\* tokens whose first / last character is a word character
StartsWithWordChar(t) == t \notin {"?", "(SDCM)", "(sdcm)", "(AB)", "(ab)"}
EndsWithWordChar(t) == t \notin {"?", "(SDCM)", "(sdcm)", "(AB)", "(ab)"}

\* the lower-case strings that occur inside a lower-cased token
\* ("fee" in "fees"): Python's  keyword in text
Infixes(t) ==
    CASE Lower(t) = "fees" -> {"fees", "fee"}
      [] OTHER -> {Lower(t)}

\* keyword (a token sequence, lower case) occurs in the lower-cased text
KeywordIn(kw, text) ==
    \E i \in 1..(Len(text) - Len(kw) + 1) :
        \A j \in 1..Len(kw) : kw[j] \in Infixes(text[i + j - 1])

\* contiguous occurrence of the token sequence pat in text, both lower-cased
OccursAt(pat, text, i) ==
    /\ i + Len(pat) - 1 <= Len(text)
    /\ \A j \in 1..Len(pat) : Lower(pat[j]) = Lower(text[i + j - 1])

\* -------------------------------------------------------------------------
\* Course titles, catalog documents
\* -------------------------------------------------------------------------

TitleA == "Diploma Construction (SDCM)"
TitleB == "Certificate BIM BCA123"
TitleC == "Diploma Facility"
TitleD == "Diploma Lean BCA456"

Titles == {TitleA, TitleB, TitleC, TitleD}

\* titles with a letters+digits word and a parenthesized acronym, in both orders
TitleE == "Diploma BCA123 (SDCM)"
TitleF == "Diploma (SDCM) BCA456 BCA123"
\* a title with a lower-case letters+digits word and a two-letter acronym
TitleG == "Diploma bca123 (AB)"

TitleTokens(title) ==
    CASE title = TitleA -> <<"Diploma", "Construction", "(SDCM)">>
      [] title = TitleB -> <<"Certificate", "BIM", "BCA123">>
      [] title = TitleC -> <<"Diploma", "Facility">>
      [] title = TitleD -> <<"Diploma", "Lean", "BCA456">>
      [] title = TitleE -> <<"Diploma", "BCA123", "(SDCM)">>
      [] title = TitleF -> <<"Diploma", "(SDCM)", "BCA456", "BCA123">>
      [] title = TitleG -> <<"Diploma", "bca123", "(AB)">>
      [] OTHER -> <<>>

\* [A-Z]{2,5}\d{2,5} as a whole word (case-sensitive)
IsCodeWord(t) == t \in {"BCA123", "BCA456"}

\* \(([A-Z]{3,5})\): the acronym inside the parentheses, None if t is no such token
AcronymOf(t) == IF t = "(SDCM)" THEN "SDCM" ELSE None

\* re.search(r'(\d+)\s*(?:month|year)s?\b', description, re.IGNORECASE)
DurationIn(description) == IF description = "desc 12 months" THEN "12 months" ELSE None

\* one object of the list form: title None stands for a missing or empty title
Item(title, url) == [title |-> title, url |-> url, description |-> "desc 12 months"]

\* one entry name -> details of the dict form (field title holds the name);
\* the details carry none of the keys the loader reads
Named(name) == [title |-> name, url |-> Absent, description |-> Absent]

\* the catalog file: form "list" (items), "dict" (name -> details, in document
\* order), or unreadable ("missing": FileNotFoundError, "malformed":
\* JSONDecodeError)
ListDoc(items) == [form |-> "list", items |-> items]
DictDoc(entries) == [form |-> "dict", items |-> entries]
MissingDoc == [form |-> "missing", items |-> <<>>]
MalformedDoc == [form |-> "malformed", items |-> <<>>]

\* position of key in an insertion-ordered dict (a sequence of records with
\* field key), 0 if absent
IndexOfKey(d, key) ==
    IF \E i \in 1..Len(d) : d[i].key = key
    THEN CHOOSE i \in 1..Len(d) : d[i].key = key
    ELSE 0

HasKey(d, key) == IndexOfKey(d, key) # 0

\* an assignment that would keep the record already stored under the key
DictPutFirstWins(d, rec) ==
    IF \E i \in 1..Len(d) : d[i].key = rec.key THEN d ELSE Append(d, rec)

\* d[key] = rec on an insertion-ordered dict: an existing key keeps its place
DictPut(d, rec) ==
    IF HasKey(d, rec.key)
    THEN [d EXCEPT ![IndexOfKey(d, rec.key)] = rec]
    ELSE Append(d, rec)

\* lines 70-77: the course code derived from a title
FirstCodeWord(toks) ==
    IF \E i \in 1..Len(toks) : IsCodeWord(toks[i])
    THEN toks[CHOOSE i \in 1..Len(toks) :
                 /\ IsCodeWord(toks[i])
                 /\ \A j \in 1..(i - 1) : ~IsCodeWord(toks[j])]
    ELSE None

FirstAcronym(toks) ==
    IF \E i \in 1..Len(toks) : AcronymOf(toks[i]) # None
    THEN AcronymOf(toks[CHOOSE i \in 1..Len(toks) :
                 /\ AcronymOf(toks[i]) # None
                 /\ \A j \in 1..(i - 1) : AcronymOf(toks[j]) = None])
    ELSE None

\* the two searches of lines 70-77 tried in the other order
DeriveCourseCodeAcronymFirst(title) ==
    IF FirstAcronym(TitleTokens(title)) # None
    THEN FirstAcronym(TitleTokens(title))
    ELSE FirstCodeWord(TitleTokens(title))

DeriveCourseCode(title) ==
    IF FirstCodeWord(TitleTokens(title)) # None
    THEN FirstCodeWord(TitleTokens(title))
    ELSE FirstAcronym(TitleTokens(title))

\* lines 54-86: the record built for one item of the list form.  The fields
\* category, skills_covered and provider (always None, never read) are left out.
ListRecord(item) ==
    [key |-> item.title,
     name |-> item.title,
     url |-> item.url,
     description |-> item.description,
     price |-> None,
     duration |-> DurationIn(item.description),
     entry_requirements |-> None,
     course_schedule |-> None,
     course_code |-> DeriveCourseCode(item.title)]

\* lines 90-100: the record built for one entry of the dict form; it has no
\* url, description, price, course_schedule or course_code key
DictRecord(entry) ==
    [key |-> entry.title,
     name |-> None,
     url |-> Absent,
     description |-> Absent,
     price |-> Absent,
     duration |-> None,
     entry_requirements |-> None,
     course_schedule |-> Absent,
     course_code |-> Absent]

RECURSIVE LoadItems(_, _, _)
LoadItems(form, items, d) ==
    IF items = <<>> THEN d
    ELSE LET it == Head(items) IN
         LoadItems(form, Tail(items),
             IF form = "dict" THEN DictPut(d, DictRecord(it))
             ELSE IF it.title # None THEN DictPut(d, ListRecord(it))
             ELSE d)

\* load_structured_course_data: the global dict after loading doc into d
load_structured_course_data(doc, d) ==
    IF doc.form \in {"missing", "malformed"} THEN d
    ELSE LoadItems(doc.form, doc.items, d)

\* -------------------------------------------------------------------------
\* Index artifact pair (written by build_faiss_index.py)
\* -------------------------------------------------------------------------

\* one metadata row (build_faiss_index.py lines 110-116)
Row(title, url) == [chunk |-> title, original_item_title |-> title, url |-> url]

\* faiss_index.ntotal of a loaded index handle
NTotal(index) ==
    CASE index = "index_abde" -> 4
      [] index = "index_abd" -> 3
      [] index = "index_ad" -> 2
      [] index = "index_ac" -> 2
      [] index = "index_da" -> 2
      [] index = "index_bd" -> 2
      [] index = "index_a" -> 1
      [] index = "index_b" -> 1
      [] OTHER -> 0

ArtifactABD ==
    [index |-> "index_abd",
     metadata |-> <<Row(TitleA, "url_a"), Row(TitleB, ""), Row(TitleD, "")>>]
ArtifactAC ==
    [index |-> "index_ac",
     metadata |-> <<Row(TitleA, "url_a"), Row(TitleC, "")>>]
ArtifactDA ==
    [index |-> "index_da",
     metadata |-> <<Row(TitleD, ""), Row(TitleA, "")>>]
ArtifactA ==
    [index |-> "index_a",
     metadata |-> <<Row(TitleA, "url_a")>>]
ArtifactBD ==
    [index |-> "index_bd",
     metadata |-> <<Row(TitleB, ""), Row(TitleD, "")>>]
ArtifactABDE ==
    [index |-> "index_abde",
     metadata |-> <<Row(TitleA, "url_a"), Row(TitleB, ""), Row(TitleD, ""),
                    Row(TitleE, "")>>]
ArtifactAD ==
    [index |-> "index_ad",
     metadata |-> <<Row(TitleA, "url_a"), Row(TitleD, "url_d")>>]
ArtifactB ==
    [index |-> "index_b",
     metadata |-> <<Row(TitleB, "")>>]
\* an index of three vectors beside the metadata file of an earlier build
\* that held one row
ArtifactStale ==
    [index |-> "index_abd",
     metadata |-> <<Row(TitleA, "url_a")>>]

\* the files of the data directory: the catalog document and the artifact pair
DiskCoded ==
    [catalog |-> ListDoc(<<Item(TitleA, "url_a"), Item(TitleB, ""), Item(TitleD, "")>>),
     artifact |-> ArtifactABD]
DiskNoCode ==
    [catalog |-> ListDoc(<<Item(TitleA, "url_a"), Item(TitleC, "")>>),
     artifact |-> ArtifactAC]
DiskDictForm ==
    [catalog |-> DictDoc(<<Named(TitleD), Named(TitleA)>>),
     artifact |-> ArtifactDA]
DiskNoCatalog ==
    [catalog |-> MissingDoc,
     artifact |-> ArtifactA]

DiskStale ==
    [catalog |-> ListDoc(<<Item(TitleA, "url_a"), Item(TitleB, "")>>),
     artifact |-> ArtifactStale]

\* a catalog none of whose records has a url
DiskPlain ==
    [catalog |-> ListDoc(<<Item(TitleB, ""), Item(TitleD, "")>>),
     artifact |-> ArtifactBD]

\* a catalog to which a course with a url was added after the index was built
DiskNewCourse ==
    [catalog |-> ListDoc(<<Item(TitleB, ""), Item(TitleA, "url_a")>>),
     artifact |-> ArtifactB]

\* four courses, three diplomas and one certificate, all in the catalog
DiskFour ==
    [catalog |-> ListDoc(<<Item(TitleA, "url_a"), Item(TitleB, ""), Item(TitleD, ""),
                           Item(TitleE, "")>>),
     artifact |-> ArtifactABDE]
\* the same index beside a catalog from which a course has been removed
DiskDropped ==
    [catalog |-> ListDoc(<<Item(TitleA, "url_a"), Item(TitleB, ""), Item(TitleD, "")>>),
     artifact |-> ArtifactABDE]
\* two courses, both with a url
DiskTwoUrls ==
    [catalog |-> ListDoc(<<Item(TitleA, "url_a"), Item(TitleD, "url_d")>>),
     artifact |-> ArtifactAD]

Disks == {DiskCoded, DiskNoCode, DiskDictForm, DiskNoCatalog, DiskStale}

\* what one run of load_faiss_components meets (lines 115-133)
LoadOutcomes == {"embedding_init_error", "files_missing", "index_read_error",
                 "metadata_read_error", "ok"}

\* -------------------------------------------------------------------------
\* External services
\* -------------------------------------------------------------------------

\* get_llm_response (lines 185-197): the reply text, or the apology string
\* built in the except branch
Apology == "I apologize, but I encountered an error communicating with the AI"
LLMTexts == {"llm text", "N/A", Apology}

\* fetch_url_content (lines 136-177): the scraped text, "" on any failure
ScrapedTexts == {"", "page EVENT CODE: X1 S$1,000.00 6 months"}

\* faiss_index.search(v, K)[1][0]: the ids of the nearest vectors, nearest
\* first, padded with -1 when the index holds fewer than K vectors
SearchResults(n) ==
    {s \in [1..K -> -1..(n - 1)] :
        /\ \A i \in 1..K : (s[i] = -1) <=> (i > n)
        /\ \A i, j \in 1..K : (i # j /\ s[i] # -1) => s[i] # s[j]}

\* the orders in which Python may iterate over a set of strings
IterationOrders(S) ==
    {s \in [1..Cardinality(S) -> S] : \A i, j \in 1..Cardinality(S) : i # j => s[i] # s[j]}

\* -------------------------------------------------------------------------
\* Helpers of process_user_message
\* -------------------------------------------------------------------------

Truthy(v) == v \notin {None, Absent, ""}

\* \b<title>\b found in the query (re.IGNORECASE): the title's tokens occur
\* contiguously, and the title begins and ends with a word character (a title
\* ending in ")" has no word boundary before a blank or the end of the query)
TitleFound(title, query) ==
    LET toks == TitleTokens(title) IN
    /\ toks # <<>>
    /\ StartsWithWordChar(toks[1])
    /\ EndsWithWordChar(toks[Len(toks)])
    /\ \E i \in 1..Len(query) : OccursAt(toks, query, i)

\* \b<code>\b found in the query (re.IGNORECASE), code a non-empty word
CodeFound(code, query) ==
    \E i \in 1..Len(query) : Lower(code) \in WordRuns(query[i])

\* \b\b (the empty alternative of the pattern) found: the query has a word
\* boundary, i.e. some word character
WordBoundaryFound(query) ==
    \E i \in 1..Len(query) : WordRuns(query[i]) # {}

TypeError == "TypeError"

\* line 217 for one record: "match", "no match", or TypeError: re.escape(None)
\* raises it; a record without the key course_code gives the pattern
\* \b(?:<title>|)\b
RecordMatch(rec, query) ==
    IF rec.course_code = None THEN TypeError
    ELSE IF rec.course_code = Absent
         THEN IF TitleFound(rec.key, query) \/ WordBoundaryFound(query)
              THEN "match" ELSE "no match"
         ELSE IF TitleFound(rec.key, query) \/ CodeFound(rec.course_code, query)
              THEN "match" ELSE "no match"

\* lines 214-220 over the records d (in dict order): the first matching
\* course name, None, or TypeError when the exception escapes
RECURSIVE extract_course_name_from_query(_, _)
extract_course_name_from_query(query, d) ==
    IF d = <<>> THEN None
    ELSE LET m == RecordMatch(Head(d), query) IN
         IF m = TypeError THEN TypeError
         ELSE IF m = "match" THEN Head(d).key
         ELSE extract_course_name_from_query(query, Tail(d))

\* lines 179-182
get_url_from_course_name(course_name, d) ==
    IF HasKey(d, course_name)
    THEN LET url == d[IndexOfKey(d, course_name)].url IN
         IF url = Absent THEN None ELSE url
    ELSE None

\* line 268
specific_detail_keywords ==
    {<<"fee">>, <<"cost">>, <<"price">>, <<"charge">>, <<"entry">>, <<"requirements">>,
     <<"prerequisite">>, <<"schedule">>, <<"intake">>, <<"start", "date">>,
     <<"duration">>, <<"course", "dates">>}

\* line 269
HasSpecificQuery(query) ==
    \E kw \in specific_detail_keywords : KeywordIn(kw, LowerSeq(query))

\* line 300
schedule_keywords ==
    {<<"schedule">>, <<"intake">>, <<"start", "date">>, <<"duration">>, <<"course", "dates">>}

HasScheduleQuery(query) ==
    \E kw \in schedule_keywords : KeywordIn(kw, LowerSeq(query))

\* lines 251-261: the ids kept by the loop, in order
RECURSIVE ValidIds(_, _)
ValidIds(indices, metadata) ==
    IF indices = <<>> THEN <<>>
    ELSE LET i == Head(indices) IN
         IF i # -1 /\ i < Len(metadata)
         THEN <<i>> \o ValidIds(Tail(indices), metadata)
         ELSE ValidIds(Tail(indices), metadata)

\* retrieved_context: the chunks of the kept ids (metadata is 0-based)
RetrievedContext(ids, metadata) ==
    [n \in 1..Len(ids) |-> metadata[ids[n] + 1].chunk]

\* retrieved_urls_with_names: an insertion-ordered dict, first url of each name
RECURSIVE RetrievedUrls(_, _, _)
RetrievedUrls(ids, metadata, acc) ==
    IF ids = <<>> THEN acc
    ELSE LET row == metadata[Head(ids) + 1] IN
         RetrievedUrls(Tail(ids), metadata,
             IF HasKey(acc, row.original_item_title) THEN acc
             ELSE Append(acc, [key |-> row.original_item_title, url |-> row.url]))

\* retrieved_course_names as a set
RetrievedNames(ids, metadata) ==
    {metadata[ids[n] + 1].original_item_title : n \in 1..Len(ids)}

\* lines 336-340
IsModular(course_name) ==
    \E i \in 1..Len(TitleTokens(course_name)) :
        Lower(TitleTokens(course_name)[i]) \in {"modular", "certificate"}

RECURSIVE Filter(_, _)
Filter(names, keepModular) ==
    IF names = <<>> THEN <<>>
    ELSE IF IsModular(Head(names)) = keepModular
         THEN <<Head(names)>> \o Filter(Tail(names), keepModular)
         ELSE Filter(Tail(names), keepModular)

Prefix(s, n) == SubSeq(s, 1, IF Len(s) < n THEN Len(s) ELSE n)

\* lines 331-346: full diplomas, then modular courses, in the iteration order
\* of the set, the first three
CoursesToDisplay(names_in_order) ==
    Prefix(Filter(names_in_order, FALSE) \o Filter(names_in_order, TRUE), DisplayCap)

\* deque(maxlen = MAX_HISTORY_LENGTH).append(entry)
DequeAppend(dq, entry) ==
    IF Len(dq) >= MAX_HISTORY_LENGTH
    THEN Append(Tail(dq), entry)
    ELSE Append(dq, entry)

\* -------------------------------------------------------------------------
\* Texts returned by process_user_message
\* -------------------------------------------------------------------------

KbUnavailable == "I'm sorry, my knowledge base could not be loaded. Please ensure all setup steps are complete."
ModelNotInitialized == "I'm sorry, the embedding model is not initialized."
EmbeddingError == "Error embedding your query. Cannot perform search."
NothingFound == "I couldn't find relevant information in my knowledge base."

\* -------------------------------------------------------------------------
\* Queries
\* -------------------------------------------------------------------------

Queries ==
    {<<"courses">>,
     <<"Fee">>,
     <<"schedule">>,
     <<"about", "sdcm">>,
     <<"fees", "BCA123">>,
     <<"diploma", "lean", "bca456">>}

\* -------------------------------------------------------------------------
\* State
\* -------------------------------------------------------------------------

VARIABLES
    disk,                               \* the files of the data directory
    dict_of_courses_structured,         \* line 22, in insertion order
    global_last_discussed_course_name,  \* line 23
    conversation_history,               \* line 25
    faiss_index,                        \* line 28: None or the loaded index
    course_chunks_metadata,             \* line 29
    embeddings_model,                   \* line 30: None or "model"
    pc,                                 \* where the program is
    turns,                              \* number of turns appended so far
    user_query,                         \* the argument of process_user_message
    loc,                                \* its local variables
    result,                             \* how the last call ended
    calls,                              \* external calls issued by the call
    pre,                                \* Conversation State when the call began
    messages,                           \* main.py line 41: st.session_state.messages
    session,                            \* the browser session being served
    screen                              \* what the script run rendered for the reply

vars == <<disk, dict_of_courses_structured, global_last_discussed_course_name,
          conversation_history, faiss_index, course_chunks_metadata,
          embeddings_model, pc, turns, user_query, loc, result, calls, pre,
          messages, session, screen>>

globals == <<dict_of_courses_structured, global_last_discussed_course_name,
             conversation_history, faiss_index, course_chunks_metadata,
             embeddings_model>>

NoPrompt == [template |-> "none", course |-> None, summaries |-> <<>>, urls |-> <<>>]

\* the locals of process_user_message before any is assigned
NoLocals ==
    [embedding |-> "not called",
     retrieved_context |-> <<>>,
     retrieved_course_names |-> <<>>,
     retrieved_urls_with_names |-> <<>>,
     has_specific_query |-> FALSE,
     explicit_course_name |-> None,
     course_url_for_details |-> None,
     scraped_content |-> None,
     dynamic_context |-> "",
     system_prompt |-> NoPrompt,
     messages |-> <<>>,
     llm_response |-> None,
     row |-> 0,
     course_details_list |-> <<>>,
     load |-> "not run"]

\* the variables of the Streamlit script main.py
app == <<messages, session, screen>>

\* nothing rendered yet for the reply: no text, no table
NoScreen == [text |-> None, table |-> <<>>]

\* the first session, in which no chat input has been handled yet: queries
\* counts the chat inputs of the session, inputs those of all sessions
FirstSession == [id |-> 1, queries |-> 0, inputs |-> 0]

NoResult == [kind |-> "none", text |-> None, rows |-> <<>>, flag |-> FALSE]
NoCalls == [embed |-> 0, search |-> 0, fetch |-> 0, llm |-> 0]

Returned(text, rows, flag) == [kind |-> "returned", text |-> text, rows |-> rows, flag |-> flag]
Raised(exception) == [kind |-> "raised", text |-> exception, rows |-> <<>>, flag |-> FALSE]

Init ==
    /\ disk \in Disks
    /\ dict_of_courses_structured = <<>>
    /\ global_last_discussed_course_name = None
    /\ conversation_history = <<>>
    /\ faiss_index = None
    /\ course_chunks_metadata = <<>>
    /\ embeddings_model = None
    /\ pc = "import_catalog"
    /\ turns = 0
    /\ user_query = <<>>
    /\ loc = NoLocals
    /\ result = NoResult
    /\ calls = NoCalls
    /\ pre = [history |-> <<>>, last |-> None]
    /\ messages = <<>>
    /\ session = FirstSession
    /\ screen = NoScreen

\* -------------------------------------------------------------------------
\* load_faiss_components (lines 107-133) as a function of the globals and of
\* what the run meets; gives the three globals after the call
\* -------------------------------------------------------------------------

FaissState(index, metadata, model) == [index |-> index, metadata |-> metadata, model |-> model]

\* a loader whose except branch of the model initialisation lacks its return
load_faiss_components_without_return(index, metadata, model, artifact, outcome) ==
    IF index # None /\ model # None THEN FaissState(index, metadata, model)
    ELSE IF outcome = "embedding_init_error"
         THEN FaissState(artifact.index, artifact.metadata, model)
    ELSE IF outcome \in {"files_missing", "index_read_error"}
         THEN FaissState(index, metadata, "model")
    ELSE IF outcome = "metadata_read_error"
         THEN FaissState(artifact.index, metadata, "model")
    ELSE FaissState(artifact.index, artifact.metadata, "model")

load_faiss_components(index, metadata, model, artifact, outcome) ==
    IF index # None /\ model # None THEN FaissState(index, metadata, model)
    ELSE IF outcome = "embedding_init_error" THEN FaissState(index, metadata, model)
    ELSE IF outcome \in {"files_missing", "index_read_error"}
         THEN FaissState(index, metadata, "model")
    ELSE IF outcome = "metadata_read_error"
         THEN FaissState(artifact.index, metadata, "model")
    ELSE FaissState(artifact.index, artifact.metadata, "model")

\* line 473, at import
ImportCatalog ==
    /\ pc = "import_catalog"
    /\ dict_of_courses_structured' =
           load_structured_course_data(disk.catalog, dict_of_courses_structured)
    /\ pc' = "import_faiss"
    /\ UNCHANGED <<disk, global_last_discussed_course_name, conversation_history,
                   faiss_index, course_chunks_metadata, embeddings_model, turns,
                   user_query, loc, result, calls, pre>>
    /\ UNCHANGED app

\* line 474, at import
ImportFaiss ==
    /\ pc = "import_faiss"
    /\ \E outcome \in LoadOutcomes :
         LET f == load_faiss_components(faiss_index, course_chunks_metadata,
                                        embeddings_model, disk.artifact, outcome) IN
         /\ faiss_index' = f.index
         /\ course_chunks_metadata' = f.metadata
         /\ embeddings_model' = f.model
    /\ pc' = "idle"
    /\ UNCHANGED <<disk, dict_of_courses_structured, global_last_discussed_course_name,
                   conversation_history, turns, user_query, loc, result, calls, pre>>
    /\ UNCHANGED app

\* -------------------------------------------------------------------------
\* process_user_message (lines 223-470), one action per stretch of code
\* between two external calls
\* -------------------------------------------------------------------------

\* lines 223-231: entry, lazy load of the index, the two early returns
StartQuery(query) ==
    /\ pc \in {"idle", "done"}
    /\ turns < MaxTurns
    /\ user_query' = query
    /\ pre' = [history |-> conversation_history,
               last |-> global_last_discussed_course_name]
    /\ calls' = NoCalls
    /\ \E outcome \in (IF faiss_index = None THEN LoadOutcomes ELSE {"not run"}) :
         LET f == IF faiss_index = None
                  THEN load_faiss_components(faiss_index, course_chunks_metadata,
                                             embeddings_model, disk.artifact, outcome)
                  ELSE FaissState(faiss_index, course_chunks_metadata, embeddings_model) IN
         /\ faiss_index' = f.index
         /\ course_chunks_metadata' = f.metadata
         /\ embeddings_model' = f.model
         /\ loc' = [NoLocals EXCEPT !.load = outcome]
         /\ IF f.index = None
            THEN /\ result' = Returned(KbUnavailable, <<>>, FALSE)
                 /\ pc' = "done"
            ELSE IF f.model = None
            THEN /\ result' = Returned(ModelNotInitialized, <<>>, FALSE)
                 /\ pc' = "done"
            ELSE /\ result' = NoResult
                 /\ pc' = "embed"
    /\ UNCHANGED <<disk, dict_of_courses_structured, global_last_discussed_course_name,
                   conversation_history, turns>>

\* the except branch missing its return: the query goes on to the search
EmbeddingFailedGoesOn ==
    /\ pc' = "search"
    /\ result' = result
    /\ loc' = [loc EXCEPT !.embedding = "error"]
    /\ UNCHANGED globals

\* lines 233-242 with the embedding call failing: the except branch returns
EmbeddingFailed ==
    /\ pc' = "done"
    /\ result' = Returned(EmbeddingError, <<>>, FALSE)
    /\ loc' = [loc EXCEPT !.embedding = "error"]
    /\ UNCHANGED globals

\* lines 233-242: the embedding call and its except branch
EmbedQuery ==
    /\ pc = "embed"
    /\ calls' = [calls EXCEPT !.embed = @ + 1]
    /\ \/ /\ pc' = "search"
          /\ result' = result
          /\ loc' = [loc EXCEPT !.embedding = "ok"]
          /\ UNCHANGED globals
       \/ EmbeddingFailed
    /\ UNCHANGED <<disk, turns, user_query, pre>>
    /\ UNCHANGED app

\* lines 276-281: the url of the course whose page is fetched
CourseUrlForDetails(specific, last, names_in_order, d) ==
    IF specific /\ Truthy(last) THEN get_url_from_course_name(last, d)
    ELSE IF names_in_order # <<>> /\ Truthy(names_in_order[1])
         THEN get_url_from_course_name(names_in_order[1], d)
    ELSE None

\* lines 244-281: nearest-neighbour search, the retrieval loop, the keyword
\* test, the explicit course name and the url to fetch
SearchAndResolve ==
    /\ pc = "search"
    /\ calls' = [calls EXCEPT !.search = @ + 1]
    /\ \E indices \in SearchResults(NTotal(faiss_index)) :
         LET ids == ValidIds(indices, course_chunks_metadata)
             names == RetrievedNames(ids, course_chunks_metadata)
             specific == HasSpecificQuery(user_query)
             explicit == extract_course_name_from_query(user_query,
                                                        dict_of_courses_structured)
         IN
         \E order \in IterationOrders(names) :
           LET retrieved ==
                 [loc EXCEPT
                    !.retrieved_context = RetrievedContext(ids, course_chunks_metadata),
                    !.retrieved_course_names = order,
                    !.retrieved_urls_with_names =
                        RetrievedUrls(ids, course_chunks_metadata, <<>>),
                    !.has_specific_query = specific]
           IN
           IF explicit = TypeError
           THEN /\ loc' = retrieved
                /\ result' = Raised(TypeError)
                /\ pc' = "done"
                /\ UNCHANGED global_last_discussed_course_name
           ELSE LET last == IF Truthy(explicit) THEN explicit
                            ELSE global_last_discussed_course_name
                    url == CourseUrlForDetails(specific, last, order,
                                               dict_of_courses_structured)
                IN
                /\ global_last_discussed_course_name' = last
                /\ loc' = [retrieved EXCEPT !.explicit_course_name = explicit,
                                            !.course_url_for_details = url]
                /\ result' = result
                /\ pc' = IF Truthy(url) THEN "fetch" ELSE "context"
    /\ UNCHANGED <<disk, dict_of_courses_structured, conversation_history, faiss_index,
                   course_chunks_metadata, embeddings_model, turns, user_query, pre>>
    /\ UNCHANGED app

\* lines 283-290: the page fetch for the dynamic context
FetchDetails ==
    /\ pc = "fetch"
    /\ calls' = [calls EXCEPT !.fetch = @ + 1]
    /\ \E scraped \in ScrapedTexts :
         loc' = [loc EXCEPT !.scraped_content = scraped,
                            !.dynamic_context =
                                IF scraped # "" THEN "Dynamically Scraped Content" ELSE ""]
    /\ pc' = "context"
    /\ UNCHANGED <<disk, globals, turns, user_query, result, pre>>
    /\ UNCHANGED app

\* dict.get(key, default) on a record field: the default only when the key
\* (or the whole record) is missing
GetOr(d, course_name, field, default) ==
    IF HasKey(d, course_name)
    THEN LET v == d[IndexOfKey(d, course_name)][field] IN
         IF v = Absent THEN default ELSE v
    ELSE default

\* lines 346-357: one entry of the per-course summary block
CourseSummary(course_name, d) ==
    [name |-> course_name,
     course_code |-> GetOr(d, course_name, "course_code", "N/A"),
     description |-> GetOr(d, course_name, "description", "Description not available."),
     url |-> GetOr(d, course_name, "url", "URL not available")]

\* lines 297-386: the system prompt, by the template chosen and what is
\* substituted into it
SystemPrompt(query, l, last, d) ==
    IF l.has_specific_query /\ l.dynamic_context # ""
    THEN [template |-> IF HasScheduleQuery(query) THEN "schedule" ELSE "extraction",
          course |-> last,
          summaries |-> <<>>,
          urls |-> <<>>]
    ELSE LET shown == CoursesToDisplay(l.retrieved_course_names) IN
         [template |-> "recommendation",
          course |-> None,
          summaries |-> [n \in 1..Len(shown) |-> CourseSummary(shown[n], d)],
          urls |-> [n \in 1..Len(l.retrieved_urls_with_names) |->
                       l.retrieved_urls_with_names[n].url]]

\* A history entry or a message holds a role and a content; the content of a
\* user entry is the query of turn n, of an assistant entry the reply of turn
\* n, and is modelled by n.
Entry(role, n) == [role |-> role, content |-> n]

\* the request assembled after the query has been appended to the history
MessagesAfterAppend(prompt, history, n) ==
    <<[role |-> "system", content |-> prompt]>>
        \o DequeAppend(history, Entry("user", n)) \o <<Entry("user", n)>>

\* lines 388-391
Messages(prompt, history, n) ==
    <<[role |-> "system", content |-> prompt]>> \o history \o <<Entry("user", n)>>

\* lines 398-404
LastAfterReply(l, last) ==
    IF ~l.has_specific_query
       /\ l.retrieved_course_names # <<>>
       /\ Truthy(l.retrieved_course_names[1])
    THEN l.retrieved_course_names[1]
    ELSE last

\* lines 292-404: the empty-context return, else prompt selection, the
\* completion call, the two appends and the update of the last discussed course
AskModel ==
    /\ pc = "context"
    /\ IF loc.retrieved_context = <<>> /\ loc.dynamic_context = ""
       THEN /\ result' = Returned(NothingFound, <<>>, loc.has_specific_query)
            /\ pc' = "done"
            /\ UNCHANGED <<global_last_discussed_course_name, conversation_history,
                           turns, loc, calls>>
       ELSE LET prompt == SystemPrompt(user_query, loc, global_last_discussed_course_name,
                                       dict_of_courses_structured)
                n == turns + 1
            IN
            \E reply \in LLMTexts :
              /\ calls' = [calls EXCEPT !.llm = @ + 1]
              /\ loc' = [loc EXCEPT
                           !.system_prompt = prompt,
                           !.messages = Messages(prompt, conversation_history, n),
                           !.llm_response = reply,
                           !.row = 1]
              /\ conversation_history' =
                     DequeAppend(DequeAppend(conversation_history, Entry("user", n)),
                                 Entry("assistant", n))
              /\ turns' = n
              /\ global_last_discussed_course_name' =
                     LastAfterReply(loc, global_last_discussed_course_name)
              /\ result' = result
              /\ pc' = "rows"
    /\ UNCHANGED <<disk, dict_of_courses_structured, faiss_index, course_chunks_metadata,
                   embeddings_model, user_query, pre>>
    /\ UNCHANGED app

\* a reply that contains "N/A" or "not available" (lines 446, 460)
SignalsAbsence(text) == text = "N/A"

\* lines 418-433 on the scraped text
EventCodeIn(scraped) == IF scraped = "" THEN None ELSE "X1"
FeeIn(scraped) == IF scraped = "" THEN None ELSE "S$1,000.00"
ScrapedDurationIn(scraped) == IF scraped = "" THEN None ELSE "6 months"

\* lines 411-461: the copy of the record with the fields filled from the page
\* and the two extraction replies
FilledRow(rec, scraped, response_entry, response_schedule) ==
    [rec EXCEPT
       !.course_code = IF EventCodeIn(scraped) # None THEN EventCodeIn(scraped) ELSE "N/A",
       !.price = IF FeeIn(scraped) # None THEN FeeIn(scraped) ELSE @,
       !.duration = IF ScrapedDurationIn(scraped) # None THEN ScrapedDurationIn(scraped) ELSE @,
       !.entry_requirements = IF SignalsAbsence(response_entry) THEN @ ELSE response_entry,
       !.course_schedule = IF SignalsAbsence(response_schedule) THEN @ ELSE response_schedule]

\* the loop of line 409 run over all the retrieved courses
RowCandidatesUncut(l) == l.retrieved_course_names

\* list(retrieved_course_names)[:3]
RowCandidates(l) == Prefix(l.retrieved_course_names, DisplayCap)

\* an iteration that would fill the fields in the record of the catalog itself
BuildCourseRowInPlace ==
    /\ pc = "rows"
    /\ loc.row <= Len(RowCandidates(loc))
    /\ LET course_name == RowCandidates(loc)[loc.row]
           d == dict_of_courses_structured
       IN
       IF ~HasKey(d, course_name)
       THEN /\ loc' = [loc EXCEPT !.row = @ + 1]
            /\ calls' = calls
            /\ dict_of_courses_structured' = d
       ELSE LET rec == d[IndexOfKey(d, course_name)] IN
            IF ~Truthy(rec.url)
            THEN /\ loc' = [loc EXCEPT !.row = @ + 1,
                                       !.course_details_list = Append(@, rec)]
                 /\ calls' = calls
                 /\ dict_of_courses_structured' = d
            ELSE \E scraped \in ScrapedTexts, response_entry \in LLMTexts,
                    response_schedule \in LLMTexts :
                   LET filled == FilledRow(rec, scraped, response_entry,
                                           response_schedule) IN
                   /\ loc' = [loc EXCEPT
                                !.row = @ + 1,
                                !.course_details_list = Append(@, filled)]
                   /\ calls' = [calls EXCEPT !.fetch = @ + 1, !.llm = @ + 2]
                   /\ dict_of_courses_structured' =
                          [d EXCEPT ![IndexOfKey(d, course_name)] = filled]
    /\ UNCHANGED <<disk, global_last_discussed_course_name, conversation_history,
                   faiss_index, course_chunks_metadata, embeddings_model,
                   pc, turns, user_query, result, pre>>
    /\ UNCHANGED app

\* lines 409-463: one iteration of the loop that builds the rows
BuildCourseRow ==
    /\ pc = "rows"
    /\ loc.row <= Len(RowCandidates(loc))
    /\ LET course_name == RowCandidates(loc)[loc.row]
           d == dict_of_courses_structured
       IN
       IF ~HasKey(d, course_name)
       THEN /\ loc' = [loc EXCEPT !.row = @ + 1]
            /\ calls' = calls
       ELSE LET rec == d[IndexOfKey(d, course_name)] IN
            IF ~Truthy(rec.url)
            THEN /\ loc' = [loc EXCEPT !.row = @ + 1,
                                       !.course_details_list = Append(@, rec)]
                 /\ calls' = calls
            ELSE \E scraped \in ScrapedTexts, response_entry \in LLMTexts,
                    response_schedule \in LLMTexts :
                   /\ loc' = [loc EXCEPT
                                !.row = @ + 1,
                                !.course_details_list =
                                    Append(@, FilledRow(rec, scraped, response_entry,
                                                        response_schedule))]
                   /\ calls' = [calls EXCEPT !.fetch = @ + 1, !.llm = @ + 2]
    /\ UNCHANGED <<disk, globals, pc, turns, user_query, result, pre>>
    /\ UNCHANGED app

\* line 470
ReturnRows ==
    /\ pc = "rows"
    /\ loc.row > Len(RowCandidates(loc))
    /\ result' = Returned(loc.llm_response, loc.course_details_list, loc.has_specific_query)
    /\ pc' = "done"
    /\ UNCHANGED <<disk, globals, turns, user_query, loc, calls, pre>>
    /\ UNCHANGED app

\* process_user_message called on its own, outside the page script
DirectCall(query) ==
    /\ StartQuery(query)
    /\ UNCHANGED app

Next ==
    \/ ImportCatalog
    \/ ImportFaiss
    \/ \E query \in Queries : DirectCall(query)
    \/ EmbedQuery
    \/ SearchAndResolve
    \/ FetchDetails
    \/ AskModel
    \/ BuildCourseRow
    \/ ReturnRows

Spec == Init /\ [][Next]_vars

\* -------------------------------------------------------------------------
\* One call of process_user_message over wider retrieval results
\* -------------------------------------------------------------------------

RowsDisks == {DiskFour, DiskDropped, DiskTwoUrls}

RowsQueries == {<<"courses">>}

RowsInit ==
    /\ disk \in RowsDisks
    /\ dict_of_courses_structured = <<>>
    /\ global_last_discussed_course_name = None
    /\ conversation_history = <<>>
    /\ faiss_index = None
    /\ course_chunks_metadata = <<>>
    /\ embeddings_model = None
    /\ pc = "import_catalog"
    /\ turns = 0
    /\ user_query = <<>>
    /\ loc = NoLocals
    /\ result = NoResult
    /\ calls = NoCalls
    /\ pre = [history |-> <<>>, last |-> None]
    /\ messages = <<>>
    /\ session = FirstSession
    /\ screen = NoScreen

\* the first call of process_user_message after the import
FirstCall(query) ==
    /\ pc = "idle"
    /\ DirectCall(query)

RowsNext ==
    \/ ImportCatalog
    \/ ImportFaiss
    \/ \E query \in RowsQueries : FirstCall(query)
    \/ EmbedQuery
    \/ SearchAndResolve
    \/ FetchDetails
    \/ AskModel
    \/ BuildCourseRow
    \/ ReturnRows

RowsSpec == RowsInit /\ [][RowsNext]_vars

\* -------------------------------------------------------------------------
\* The page script src/main.py around process_user_message
\* -------------------------------------------------------------------------

\* number of chat inputs explored, over all sessions
MaxChatInputs == 2

\* number of browser sessions served by the one process
MaxSessions == 2

\* the chat inputs explored through the page script
Prompts == {<<"courses">>, <<"Fee">>, <<"Fee", "sdcm">>}

\* the data directories explored through the page script
SessionDisks == {DiskPlain, DiskNoCode, DiskNewCourse}

\* an element of st.session_state.messages.  A user message has neither a
\* data_frame nor an is_follow_up key: data_frame <<>> stands for the missing
\* key (a stored frame has at least one row), and message.get("is_follow_up")
\* of a user message is falsy.
UserMessage(prompt) ==
    [role |-> "user", content |-> prompt, data_frame |-> <<>>, is_follow_up |-> FALSE]
AssistantMessage(response_text, df, is_follow_up) ==
    [role |-> "assistant", content |-> <<response_text>>, data_frame |-> df,
     is_follow_up |-> is_follow_up]

\* main.py lines 74-81: pd.DataFrame(rows) cut to the desired columns
DataFrame(rows) ==
    [n \in 1..Len(rows) |->
        [name |-> rows[n].name,
         course_code |-> rows[n].course_code,
         duration |-> rows[n].duration,
         price |-> rows[n].price,
         entry_requirements |-> rows[n].entry_requirements,
         course_schedule |-> rows[n].course_schedule,
         url |-> rows[n].url]]

\* main.py lines 52-63: a chat input is appended to the session's messages
\* and handed to process_user_message
ChatInput(prompt) ==
    /\ pc = "idle"
    /\ session.inputs < MaxChatInputs
    /\ StartQuery(prompt)
    /\ messages' = Append(messages, UserMessage(prompt))
    /\ session' = [session EXCEPT !.queries = @ + 1, !.inputs = @ + 1]
    /\ screen' = NoScreen

\* the branch of line 73 taken on the rows alone, whatever the flag
ShowReplyIgnoringFlag ==
    /\ pc = "done"
    /\ IF result.kind = "raised"
       THEN UNCHANGED <<messages, screen>>
       ELSE IF result.rows # <<>>
       THEN /\ screen' = [text |-> result.text, table |-> DataFrame(result.rows)]
            /\ messages' = Append(messages,
                   AssistantMessage(result.text, DataFrame(result.rows), result.flag))
       ELSE /\ screen' = [text |-> result.text, table |-> <<>>]
            /\ messages' = Append(messages,
                   AssistantMessage(result.text, <<>>, result.flag))
    /\ pc' = "idle"
    /\ UNCHANGED <<disk, globals, turns, user_query, loc, result, calls, pre, session>>

\* main.py lines 63-88 once process_user_message has ended: the text is
\* rendered, the table only for rows with the flag false, and the assistant
\* message is stored.  An exception leaving process_user_message ends the
\* script run before anything is rendered or stored.
ShowReply ==
    /\ pc = "done"
    /\ IF result.kind = "raised"
       THEN UNCHANGED <<messages, screen>>
       ELSE IF result.rows # <<>> /\ ~result.flag
       THEN /\ screen' = [text |-> result.text, table |-> DataFrame(result.rows)]
            /\ messages' = Append(messages,
                   AssistantMessage(result.text, DataFrame(result.rows), result.flag))
       ELSE /\ screen' = [text |-> result.text, table |-> <<>>]
            /\ messages' = Append(messages,
                   AssistantMessage(result.text, <<>>, result.flag))
    /\ pc' = "idle"
    /\ UNCHANGED <<disk, globals, turns, user_query, loc, result, calls, pre, session>>

\* main.py lines 91-96: the Clear Chat button.  Lines 94-95 import the name
\* global_last_discussed_course_name into main.py and rebind it there: the
\* variable of customer_query_handler.py is not written.
ClearChat ==
    /\ pc = "idle"
    /\ messages # <<>>
    /\ messages' = <<>>
    /\ screen' = NoScreen
    /\ UNCHANGED <<disk, globals, pc, turns, user_query, loc, result, calls, pre, session>>

\* main.py lines 39-41 in another browser session of the same process: the
\* session state is new, the modules stay imported
NewSession ==
    /\ pc = "idle"
    /\ session.id < MaxSessions
    /\ session' = [id |-> session.id + 1, queries |-> 0, inputs |-> session.inputs]
    /\ messages' = <<>>
    /\ screen' = NoScreen
    /\ UNCHANGED <<disk, globals, pc, turns, user_query, loc, result, calls, pre>>

\* the first script run of the first session imports the handler module
SessionInit ==
    /\ disk \in SessionDisks
    /\ dict_of_courses_structured = <<>>
    /\ global_last_discussed_course_name = None
    /\ conversation_history = <<>>
    /\ faiss_index = None
    /\ course_chunks_metadata = <<>>
    /\ embeddings_model = None
    /\ pc = "import_catalog"
    /\ turns = 0
    /\ user_query = <<>>
    /\ loc = NoLocals
    /\ result = NoResult
    /\ calls = NoCalls
    /\ pre = [history |-> <<>>, last |-> None]
    /\ messages = <<>>
    /\ session = FirstSession
    /\ screen = NoScreen

SessionNext ==
    \/ ImportCatalog
    \/ ImportFaiss
    \/ \E prompt \in Prompts : ChatInput(prompt)
    \/ EmbedQuery
    \/ SearchAndResolve
    \/ FetchDetails
    \/ AskModel
    \/ BuildCourseRow
    \/ ReturnRows
    \/ ShowReply
    \/ ClearChat
    \/ NewSession

SessionSpec == SessionInit /\ [][SessionNext]_vars

\* -------------------------------------------------------------------------
\* Vocabulary of the properties
\* -------------------------------------------------------------------------

\* a call of process_user_message has ended, by return or by exception
QueryEnded == pc = "done"

\* the completion call of the reply has been made
ReplyObtained == loc.llm_response # None

\* the courses of the catalog that the text of the query names, by full
\* title or by derived course code, as a whole word
NamedCourses(query, d) ==
    {d[i].key : i \in {j \in 1..Len(d) :
        \/ TitleFound(d[j].key, query)
        \/ Truthy(d[j].course_code) /\ CodeFound(d[j].course_code, query)}}

\* the distinct retrieved courses in order of first appearance among the
\* returned fragments
FirstSeen(l) == [n \in 1..Len(l.retrieved_urls_with_names) |->
                    l.retrieved_urls_with_names[n].key]

\* the n most recent of t completed turns, as query + reply pairs
RECURSIVE LastPairs(_, _)
LastPairs(t, n) ==
    IF t = 0 \/ n = 0 THEN <<>>
    ELSE LastPairs(t - 1, n - 1) \o <<Entry("user", t), Entry("assistant", t)>>

ConversationStateUnchanged ==
    /\ conversation_history = pre.history
    /\ global_last_discussed_course_name = pre.last

\* -------------------------------------------------------------------------
\* C1  After any number n of completed queries the conversation history holds
\*     exactly the min(n, 5) most recent query + reply pairs.
\* -------------------------------------------------------------------------
C1_HistoryHoldsFiveLastPairs ==
    conversation_history = LastPairs(turns, MAX_HISTORY_LENGTH)

\* -------------------------------------------------------------------------
\* C2  A specific-detail query that names no known course leaves the last
\*     discussed course as it was before the query.
\* -------------------------------------------------------------------------
C2_FollowUpKeepsLastDiscussed ==
    (/\ HasSpecificQuery(user_query)
     /\ NamedCourses(user_query, dict_of_courses_structured) = {})
    => global_last_discussed_course_name = pre.last

\* -------------------------------------------------------------------------
\* C3  After a completed general query whose top retrieval hit is course X,
\*     the last discussed course is X.
\* -------------------------------------------------------------------------
C3_GeneralQuerySetsTopHit ==
    (/\ ReplyObtained
     /\ ~HasSpecificQuery(user_query)
     /\ FirstSeen(loc) # <<>>)
    => global_last_discussed_course_name = FirstSeen(loc)[1]

\* -------------------------------------------------------------------------
\* C4  When the query names a known course C, then once process_user_message
\*     has returned after the model call the last discussed course is C.
\* -------------------------------------------------------------------------
C4_NamedCourseIsLastDiscussed ==
    \A c \in Titles :
        (/\ QueryEnded
         /\ ReplyObtained
         /\ NamedCourses(user_query, dict_of_courses_structured) = {c})
        => global_last_discussed_course_name = c

\* -------------------------------------------------------------------------
\* C5  When the embedding call fails the query returns the inline error text
\*     with no rows, the Conversation State is as before the query and no
\*     search, fetch or completion call is issued.
\* -------------------------------------------------------------------------
C5_EmbeddingFailureHasNoEffect ==
    loc.embedding = "error"
    => /\ QueryEnded
       /\ result = Returned(EmbeddingError, <<>>, FALSE)
       /\ ConversationStateUnchanged
       /\ calls.search = 0 /\ calls.fetch = 0 /\ calls.llm = 0

\* an embedding failure met after turns that left a history and a last
\* discussed course
C5_Witness ==
    /\ loc.embedding = "error"
    /\ QueryEnded
    /\ pre.history # <<>>
    /\ pre.last # None

\* -------------------------------------------------------------------------
\* C6  When the index is unloaded at the start of a query and loading it
\*     fails, the query ends with the knowledge-base-unavailable message, no
\*     rows and flag false, without an exception, without an embedding or
\*     completion call and without a change of the Conversation State.
\* -------------------------------------------------------------------------
LoadFailed == loc.load \notin {"not run", "ok"}

C6_FailedLoadEndsQuery ==
    LoadFailed
    => /\ QueryEnded
       /\ result = Returned(KbUnavailable, <<>>, FALSE)
       /\ calls.embed = 0 /\ calls.llm = 0
       /\ ConversationStateUnchanged

\* -------------------------------------------------------------------------
\* C7  With an empty catalog every query returns the knowledge-base-
\*     unavailable message and no rows, and neither the embedding nor the
\*     completion service is called.
\* -------------------------------------------------------------------------
C7_EmptyCatalogIsUnavailable ==
    (/\ dict_of_courses_structured = <<>>
     /\ pc \notin {"import_catalog", "import_faiss", "idle"})
    => /\ calls.embed = 0 /\ calls.llm = 0
       /\ QueryEnded => result = Returned(KbUnavailable, <<>>, result.flag)

\* -------------------------------------------------------------------------
\* C8  A specific-detail query that resolves to a course with a URL whose
\*     page fetch returns empty content is answered, on the extraction path,
\*     with the fixed not-available sentence followed by that URL.
\* -------------------------------------------------------------------------
NotAvailableAnswer(url) ==
    CASE url = "url_a" ->
           "The requested information is not available on the official website. url_a"
      [] OTHER ->
           "The requested information is not available on the official website."

C8_EmptyFetchGivesNotAvailable ==
    (/\ QueryEnded
     /\ loc.has_specific_query
     /\ Truthy(loc.course_url_for_details)
     /\ loc.scraped_content = "")
    => /\ result.kind = "returned"
       /\ result.text = NotAvailableAnswer(loc.course_url_for_details)
       /\ loc.system_prompt.template \in {"schedule", "extraction"}

\* -------------------------------------------------------------------------
\* C9  A query whose retrieval gives no valid fragment and that gets no
\*     non-empty fetched content returns the nothing-found message with no
\*     rows, and no completion call is issued for it.
\* -------------------------------------------------------------------------
NoContextObtained ==
    /\ calls.search = 1
    /\ loc.retrieved_context = <<>>
    /\ loc.dynamic_context = ""

C9_NoContextShortCircuits ==
    NoContextObtained
    => /\ calls.llm = 0
       /\ QueryEnded => result = Returned(NothingFound, <<>>, loc.has_specific_query)

\* -------------------------------------------------------------------------
\* C10 The display list of the recommendation prompt is the distinct
\*     retrieved courses in order of first appearance, diplomas before
\*     modular or certificate courses, cut to three.
\* -------------------------------------------------------------------------
DisplayedNames(prompt) == [n \in 1..Len(prompt.summaries) |-> prompt.summaries[n].name]

C10_DisplayListInFirstSeenOrder ==
    loc.system_prompt.template = "recommendation"
    => DisplayedNames(loc.system_prompt) =
           Prefix(Filter(FirstSeen(loc), FALSE) \o Filter(FirstSeen(loc), TRUE), DisplayCap)

\* -------------------------------------------------------------------------
\* C11 process_user_message ends every call by returning a (text, rows,
\*     flag) result: no call ends with an exception leaving the function.
\* -------------------------------------------------------------------------
C11_NeverRaises ==
    QueryEnded => result.kind = "returned"

\* -------------------------------------------------------------------------
\* The catalog loader over bounded list-form catalogs
\* -------------------------------------------------------------------------

\* number of objects in the catalog document
MaxItems == 3

LoaderTitles == Titles \cup {TitleE, TitleF, TitleG}

\* the objects a list-form document may hold: a title (or none) and one of
\* two urls, so that two objects with the same title can differ
LoaderItems ==
    {Item(title, url) : title \in LoaderTitles \cup {None}, url \in {"url_1", "url_2"}}

LoaderDocs ==
    {ListDoc(items) : items \in UNION {[1..n -> LoaderItems] : n \in 0..MaxItems}}

\* the module is imported with the catalog file holding one of LoaderDocs
LoaderInit ==
    /\ disk \in {[catalog |-> doc, artifact |-> ArtifactA] : doc \in LoaderDocs}
    /\ dict_of_courses_structured = <<>>
    /\ global_last_discussed_course_name = None
    /\ conversation_history = <<>>
    /\ faiss_index = None
    /\ course_chunks_metadata = <<>>
    /\ embeddings_model = None
    /\ pc = "import_catalog"
    /\ turns = 0
    /\ user_query = <<>>
    /\ loc = NoLocals
    /\ result = NoResult
    /\ calls = NoCalls
    /\ pre = [history |-> <<>>, last |-> None]
    /\ messages = <<>>
    /\ session = FirstSession
    /\ screen = NoScreen

LoaderNext == ImportCatalog

LoaderSpec == LoaderInit /\ [][LoaderNext]_vars

\* load_structured_course_data has run
CatalogLoaded == pc # "import_catalog"

\* every object of the document has a title
WellFormed(items) == \A i \in 1..Len(items) : items[i].title # None

TitlesOf(items) == {items[i].title : i \in 1..Len(items)}

\* the last object of the document with the given title
LastWithTitle(items, title) ==
    items[CHOOSE i \in 1..Len(items) :
            /\ items[i].title = title
            /\ \A j \in (i + 1)..Len(items) : items[j].title # title]

\* -------------------------------------------------------------------------
\* C12 Loading a list-form catalog of well-formed records gives a mapping
\*     with exactly one entry per distinct title, keyed by that title, and
\*     the entry of a title is built from the last record in document order
\*     that bears the title.
\* -------------------------------------------------------------------------
C12_OneEntryPerTitleLastWins ==
    (/\ CatalogLoaded
     /\ disk.catalog.form = "list"
     /\ WellFormed(disk.catalog.items))
    => LET d == dict_of_courses_structured
           items == disk.catalog.items
       IN
       /\ Len(d) = Cardinality(TitlesOf(items))
       /\ {d[i].key : i \in 1..Len(d)} = TitlesOf(items)
       /\ \A i \in 1..Len(d) :
            /\ d[i].name = d[i].key
            /\ d[i] = ListRecord(LastWithTitle(items, d[i].key))

\* a catalog of three records, two of them with the same title and different
\* urls, has been loaded into two entries
C12_Witness ==
    /\ CatalogLoaded
    /\ WellFormed(disk.catalog.items)
    /\ Len(disk.catalog.items) = 3
    /\ disk.catalog.items[1].title = disk.catalog.items[3].title
    /\ disk.catalog.items[1].url # disk.catalog.items[3].url
    /\ disk.catalog.items[2].title # disk.catalog.items[1].title
    /\ Len(dict_of_courses_structured) = 2

\* -------------------------------------------------------------------------
\* C13 When the index file and the metadata file differ in their number of
\*     elements the index is never loaded, and every query that ends returns
\*     the knowledge-base-unavailable message.
\* -------------------------------------------------------------------------
CountMismatch(artifact) == NTotal(artifact.index) # Len(artifact.metadata)

C13_MismatchLeavesIndexUnloaded ==
    CountMismatch(disk.artifact)
    => /\ faiss_index = None
       /\ QueryEnded => result = Returned(KbUnavailable, <<>>, FALSE)

\* -------------------------------------------------------------------------
\* C14 The page script renders the course table for a reply only when the
\*     returned flag is false and the returned rows are not empty; for a
\*     reply flagged specific-detail, and for every query that has a
\*     specific-detail keyword, only the text is rendered and the message is
\*     stored without a table.
\* -------------------------------------------------------------------------

\* the script run has rendered the reply of the last chat input
ReplyShown == pc = "idle" /\ screen.text # None

LastMessage == messages[Len(messages)]

C14_TableOnlyForGeneralReplyWithRows ==
    /\ ReplyShown
       => /\ screen.text = result.text
          /\ LastMessage.role = "assistant"
          /\ LastMessage.data_frame = screen.table
          /\ screen.table # <<>> => (~result.flag /\ result.rows # <<>>)
          /\ (result.flag \/ HasSpecificQuery(user_query)) => screen.table = <<>>
    /\ \A i \in 1..Len(messages) :
          messages[i].is_follow_up => messages[i].data_frame = <<>>

\* in one session a general query was answered with a table, then a
\* specific-detail query came back with rows and was answered with text only
C14_Witness ==
    /\ ReplyShown
    /\ Len(messages) = 4
    /\ messages[2].data_frame # <<>>
    /\ result.flag
    /\ result.rows # <<>>
    /\ screen.table = <<>>

\* -------------------------------------------------------------------------
\* C15 The first query of every session starts from an empty Conversation
\*     State: it finds no history entry and no last discussed course, and
\*     the request sent to the model holds the system prompt and the query
\*     only.
\* -------------------------------------------------------------------------
FirstQueryOfSession == session.queries = 1

C15_SessionStartsWithEmptyState ==
    FirstQueryOfSession
    => /\ pre.history = <<>>
       /\ pre.last = None
       /\ ReplyObtained => Len(loc.messages) = 2

\* -------------------------------------------------------------------------
\* C16 The course code of a loaded record: when the title has a whole word
\*     of 2-5 capital letters followed by 2-5 digits, the first such word,
\*     also when the title has a parenthesized acronym; otherwise, when the
\*     title has a parenthesized acronym of 3-5 capital letters, the first
\*     such acronym; otherwise no code.
\* -------------------------------------------------------------------------
CodeWordPlaces(toks) == {i \in 1..Len(toks) : IsCodeWord(toks[i])}
AcronymPlaces(toks) == {i \in 1..Len(toks) : AcronymOf(toks[i]) # None}
Least(S) == CHOOSE i \in S : \A j \in S : i <= j

C16_CodeWordBeforeAcronym ==
    CatalogLoaded
    => \A n \in 1..Len(dict_of_courses_structured) :
         LET rec == dict_of_courses_structured[n]
             toks == TitleTokens(rec.key)
         IN
         /\ CodeWordPlaces(toks) # {}
            => rec.course_code = toks[Least(CodeWordPlaces(toks))]
         /\ (CodeWordPlaces(toks) = {} /\ AcronymPlaces(toks) # {})
            => rec.course_code = AcronymOf(toks[Least(AcronymPlaces(toks))])
         /\ (CodeWordPlaces(toks) = {} /\ AcronymPlaces(toks) = {})
            => rec.course_code = None

\* a loaded catalog with a title that has an acronym before two code words,
\* a title with an acronym only and a title with neither
C16_Witness ==
    /\ CatalogLoaded
    /\ HasKey(dict_of_courses_structured, TitleF)
    /\ HasKey(dict_of_courses_structured, TitleA)
    /\ HasKey(dict_of_courses_structured, TitleG)
    /\ dict_of_courses_structured[IndexOfKey(dict_of_courses_structured, TitleF)].course_code
           = "BCA456"

\* -------------------------------------------------------------------------
\* C17 The page fetched for the dynamic context is the page of the resolved
\*     target of the query: the course the query names if it names one, else
\*     the course last discussed before the query if the query is
\*     specific-detail, else the first retrieved course; and at most one
\*     such fetch is issued per query.
\* -------------------------------------------------------------------------

\* the search and the resolution of lines 244-281 are done, the rows not begun
TargetResolved == pc \in {"fetch", "context"}

ResolvedTarget ==
    IF Truthy(loc.explicit_course_name) THEN loc.explicit_course_name
    ELSE IF loc.has_specific_query /\ Truthy(pre.last) THEN pre.last
    ELSE IF FirstSeen(loc) # <<>> THEN FirstSeen(loc)[1]
    ELSE None

C17_FetchedPageIsOfResolvedTarget ==
    TargetResolved
    => /\ loc.course_url_for_details =
              (IF ResolvedTarget = None THEN None
               ELSE get_url_from_course_name(ResolvedTarget, dict_of_courses_structured))
       /\ calls.fetch <= 1
       /\ calls.fetch = 1 => Truthy(loc.course_url_for_details)

\* -------------------------------------------------------------------------
\* C18 The request of a query that reaches the model call is the selected
\*     system prompt, then the history as it was before the query, oldest
\*     entry first, then the query itself as the last message and nowhere
\*     else; the query and then the reply are the last two entries of the
\*     history once the reply is obtained.
\* -------------------------------------------------------------------------

\* entries in the order they were made: by turn, the query before its reply
Chronological(h) ==
    \A i, j \in 1..Len(h) :
        i < j => \/ h[i].content < h[j].content
                 \/ h[i].content = h[j].content
                    /\ h[i].role = "user" /\ h[j].role = "assistant"

C19_HistoryIsWholePairs ==
    LET h == conversation_history IN
    /\ Len(h) % 2 = 0
    /\ \A i \in 1..Len(h) :
         h[i].role = (IF i % 2 = 1 THEN "user" ELSE "assistant")
    /\ \A i \in 2..Len(h) :
         h[i].role = "assistant" => h[i - 1] = Entry("user", h[i].content)

\* -------------------------------------------------------------------------
\* C20 The index handle and the metadata array are loaded together or not
\*     at all: no state has the handle loaded and the metadata empty, and a
\*     query whose load meets a missing or unreadable index or metadata file
\*     leaves the handle unloaded and returns the knowledge-base-unavailable
\*     message.
\* -------------------------------------------------------------------------
ArtifactUnusable == loc.load \in {"files_missing", "index_read_error", "metadata_read_error"}

C20_IndexAndMetadataLoadTogether ==
    /\ faiss_index # None => course_chunks_metadata # <<>>
    /\ ArtifactUnusable
       => /\ faiss_index = None
          /\ QueryEnded => result = Returned(KbUnavailable, <<>>, FALSE)

\* -------------------------------------------------------------------------
\* C21 extract_course_name_from_query gives a course only when the query
\*     holds the full title of that course or its derived course code as a
\*     whole word, and gives no course (without raising) when the query names
\*     none; a course without a derived code never matches by anything but
\*     its title.
\* -------------------------------------------------------------------------

\* line 271 has been executed for the current query
NameExtracted == calls.search = 1 /\ pc # "search"

C21_OnlyNamedCourseIsExtracted ==
    NameExtracted
    => /\ Truthy(loc.explicit_course_name)
          => loc.explicit_course_name
                 \in NamedCourses(user_query, dict_of_courses_structured)
       /\ NamedCourses(user_query, dict_of_courses_structured) = {}
          => /\ result.kind # "raised"
             /\ loc.explicit_course_name = None

\* -------------------------------------------------------------------------
\* C22 Every query that reaches the model call gets exactly one template:
\*     the schedule extraction template when it is specific-detail and has a
\*     schedule term, the fact-extraction template when it is specific-detail
\*     without one, the recommendation template when (and only when) it is
\*     not specific-detail.
\* -------------------------------------------------------------------------
TemplateFor(query) ==
    IF HasSpecificQuery(query)
    THEN IF HasScheduleQuery(query) THEN "schedule" ELSE "extraction"
    ELSE "recommendation"

C22_TemplateFollowsQueryKind ==
    ReplyObtained => loc.system_prompt.template = TemplateFor(user_query)

\* -------------------------------------------------------------------------
\* C23 The returned rows are at most three, hold at most one row per course
\*     and only courses of the catalog; building a row issues at most one
\*     page fetch and two completion calls, so that a query issues at most 4
\*     fetches and 7 completion calls.
\* -------------------------------------------------------------------------

\* the rows built so far by the query, and the loop iterations done
RowsBuilt == loc.course_details_list
IterationsDone == IF loc.row = 0 THEN 0 ELSE loc.row - 1

C23_RowsAndCallsAreBounded ==
    /\ Len(RowsBuilt) <= 3
    /\ \A i, j \in 1..Len(RowsBuilt) : i # j => RowsBuilt[i].key # RowsBuilt[j].key
    /\ \A i \in 1..Len(RowsBuilt) : HasKey(dict_of_courses_structured, RowsBuilt[i].key)
    /\ Len(RowsBuilt) <= IterationsDone
    /\ calls.fetch <= 1 + Len(RowsBuilt)
    /\ calls.llm <= 1 + 2 * Len(RowsBuilt)
    /\ calls.fetch <= 4 /\ calls.llm <= 7
    /\ QueryEnded /\ result.kind = "returned" => Len(result.rows) <= 3

\* four distinct courses were retrieved, one of them not in the catalog, and
\* the call returned three rows after 2 fetches and 3 completion calls
C23_Witness ==
    /\ QueryEnded
    /\ Len(loc.retrieved_course_names) = 4
    /\ disk = DiskDropped
    /\ Len(result.rows) = 3
    /\ calls.fetch = 2
    /\ calls.llm = 3

\* -------------------------------------------------------------------------
\* C24 Pressing Clear Chat resets the last discussed course of the handler
\*     to none, so that the next specific-detail query cannot reuse the
\*     course discussed before the clear.
\* -------------------------------------------------------------------------
C24_ClearChatResetsLastDiscussed ==
    [][ClearChat => global_last_discussed_course_name' = None]_vars

\* -------------------------------------------------------------------------
\* C25 When an extraction template is used, the course named in the system
\*     prompt is a course (not none) and is the course whose page was
\*     fetched for the dynamic context.
\* -------------------------------------------------------------------------
ExtractionTemplateUsed == loc.system_prompt.template \in {"schedule", "extraction"}

C25_PromptNamesFetchedCourse ==
    ExtractionTemplateUsed
    => /\ Truthy(loc.system_prompt.course)
       /\ get_url_from_course_name(loc.system_prompt.course, dict_of_courses_structured)
              = loc.course_url_for_details

\* -------------------------------------------------------------------------
\* C26 A query that ends in the nothing-found return leaves the
\*     Conversation State as it was before the query: the history and the
\*     last discussed course are unchanged, also when the query names a
\*     known course.
\* -------------------------------------------------------------------------
NothingFoundReturned == QueryEnded /\ result.kind = "returned" /\ result.text = NothingFound

C26_NothingFoundKeepsConversationState ==
    NothingFoundReturned => ConversationStateUnchanged

\* -------------------------------------------------------------------------
\* C27 When every retrieved course is in the catalog, the courses of the
\*     returned rows are the courses of the summary block of the
\*     recommendation prompt.
\* -------------------------------------------------------------------------
AllRetrievedInCatalog ==
    \A i \in 1..Len(loc.retrieved_course_names) :
        HasKey(dict_of_courses_structured, loc.retrieved_course_names[i])

RowCourses == {result.rows[i].key : i \in 1..Len(result.rows)}
SummaryCourses == {loc.system_prompt.summaries[i].name :
                      i \in 1..Len(loc.system_prompt.summaries)}

C27_RowsAreTheSummarisedCourses ==
    (/\ QueryEnded
     /\ result.kind = "returned"
     /\ loc.system_prompt.template = "recommendation"
     /\ AllRetrievedInCatalog)
    => RowCourses = SummaryCourses

\* -------------------------------------------------------------------------
\* C28 A row's entry-requirements and schedule fields hold either their
\*     empty value or the text of a successful extraction: never a reply
\*     that signals absence, never the apology string of a failed
\*     completion call.
\* -------------------------------------------------------------------------
NotAnExtraction == {"N/A", Apology}

C28_FieldsHoldOnlyExtractions ==
    \A i \in 1..Len(loc.course_details_list) :
        /\ loc.course_details_list[i].entry_requirements \notin NotAnExtraction
        /\ loc.course_details_list[i].course_schedule \notin NotAnExtraction

\* -------------------------------------------------------------------------
\* C29 process_user_message never modifies the loaded catalog: once the
\*     catalog is loaded, dict_of_courses_structured is, after any number
\*     of queries, what load_structured_course_data made of the catalog
\*     file; the scraped and extracted fields are only in the rows.
\* -------------------------------------------------------------------------
CatalogAsLoaded == load_structured_course_data(disk.catalog, <<>>)

C29_CatalogIsNeverModified ==
    pc # "import_catalog" => dict_of_courses_structured = CatalogAsLoaded

\* a row of a later query holds fields that the record of the catalog lacks
C29_Witness ==
    /\ pc = "done"
    /\ turns >= 2
    /\ \E i \in 1..Len(loc.course_details_list) :
         LET row == loc.course_details_list[i]
             d == dict_of_courses_structured IN
         /\ HasKey(d, row.key)
         /\ Truthy(row.url)
         /\ row # d[IndexOfKey(d, row.key)]

\* -------------------------------------------------------------------------
\* C30 A loaded index handle implies an initialized embedding model, so
\*     process_user_message never returns its "embedding model is not
\*     initialized" reply; and load_faiss_components called when both are
\*     loaded, whatever the run would meet, leaves the three globals as
\*     they are.
\* -------------------------------------------------------------------------
BothLoaded == faiss_index # None /\ embeddings_model # None

C30_IndexImpliesModel ==
    /\ faiss_index # None => embeddings_model # None
    /\ result.text # ModelNotInitialized
    /\ BothLoaded =>
         \A outcome \in LoadOutcomes :
            load_faiss_components(faiss_index, course_chunks_metadata,
                                  embeddings_model, disk.artifact, outcome)
              = FaissState(faiss_index, course_chunks_metadata, embeddings_model)

\* the query's own call of the loader loaded the index, and the query went
\* past the test of the embedding model
C30_Witness ==
    /\ pc = "embed"
    /\ loc.load \in LoadOutcomes
    /\ BothLoaded

====
